---- MODULE Spec2Model ----
(***************************************************************************)
(* TravelMAX travel planner (src/main.py): the invocation wrapper          *)
(* run_travel_planner, the three-node linear graph built by                *)
(* build_travel_planner_graph (validate_input -> gather_travel_data ->     *)
(* create_enhanced_itinerary -> END) and the pure cost estimator           *)
(* TravelPlannerService.calculate_estimated_cost.                          *)
(*                                                                         *)
(* Representation of Python values:                                        *)
(*   dict            a function on its keys; {} is the empty function <<>> *)
(*   list            a sequence                                            *)
(*   city (str)      a sequence of one-character strings, so that          *)
(*                   str.lower() is computed character by character        *)
(*   other str       a TLA+ string; f-strings are concatenations (\o)      *)
(*   duration        <<n>> for the int n, <<>> for None                    *)
(*   enum members    the strings "BudgetRange.BUDGET", "TripType.LEISURE"  *)
(*   money (float)   an integer number of hundredths (585.0 is 58500)      *)
(*   elapsed seconds an integer number of clock ticks, never negative      *)
(***************************************************************************)
EXTENDS Integers, Sequences, FiniteSets, TLC

VARIABLES
    state,        \* the argument of run_travel_planner (possibly partial)
    final_state,  \* run_travel_planner's running state (main.py:356, 363)
    result,       \* the value run_travel_planner returned (<<>> before)
    pc,           \* "start", the node the engine runs next, "END", "returned"
    outcome,      \* "running", "completed" (main.py:367), "system_error" (372)
    trace,        \* history: the nodes the engine has run, in order
    node_inputs,  \* history: the state each of those nodes was called with
    step_failed,  \* history: whether each of those nodes took its except branch
    llm_calls,    \* history: what each invocation of llm.invoke did
    engine_error, \* history: <<str(e)>> of the exception app.astream raised
    weather_task, \* the coroutine of main.py:232: idle, pending or done
    events_task,  \* the coroutine of main.py:233: idle, pending or done
    lookup_log,   \* history: the lookups in the order they finished, then
                  \* what the await of main.py:235 did ("ok" or "raise")
    llm_task,     \* the thread of main.py:277: idle, or pending while the
                  \* step awaits it
    node_outputs, \* history: the update each step yielded to the wrapper
    travel_service, \* the module-level TravelPlannerService of main.py:118
    runs,         \* the invocations of run_travel_planner in flight together
    overlapped    \* history: an invocation ran a step while another was
                  \* between its start and its return

\* what a step awaits, and the history of the lookups
task_vars == <<weather_task, events_task, lookup_log, llm_task>>

\* what invocations running side by side could share, and their own records
concurrent_vars == <<travel_service, runs, overlapped>>

vars == <<state, final_state, result, pc, outcome, trace, node_inputs,
          step_failed, llm_calls, engine_error, task_vars, node_outputs,
          concurrent_vars>>

\* ------------------------------------------------------------------ bounds
MaxDuration == 3
MaxTime == 1
MaxOmitted == 1
MaxUpdates == 2

\* ------------------------------------------------------- Python primitives
NoneValue == <<>>
IntValue(n) == <<n>>

\* dict.get(key, default)
Get(d, key, default) == IF key \in DOMAIN d THEN d[key] ELSE default

\* (mutation of Merge: a key the left side already has keeps its value)
Merge_first_write_wins(a, b) ==
    [k \in DOMAIN a \cup DOMAIN b |-> IF k \in DOMAIN a THEN a[k] ELSE b[k]]

\* {**a, **b} and a.update(b): per key, b's value wins
Merge(a, b) ==
    [k \in DOMAIN a \cup DOMAIN b |-> IF k \in DOMAIN b THEN b[k] ELSE a[k]]

\* `not x` for a str, list or dict
Falsy(x) == x = <<>>

\* main.py:362-363: a non-empty update is merged into the running state
stream_update(running, node_output) ==
    IF Falsy(node_output) THEN running ELSE Merge(running, node_output)

RECURSIVE SumOver(_, _)
SumOver(d, keys) ==
    IF keys = {} THEN 0
    ELSE LET k == CHOOSE x \in keys : TRUE IN d[k] + SumOver(d, keys \ {k})

\* sum(d.values())
SumValues(d) == SumOver(d, DOMAIN d)

IsPrefix(s, t) == Len(s) <= Len(t) /\ SubSeq(t, 1, Len(s)) = s

\* the character U+212A (KELVIN SIGN), which a string literal here cannot
\* hold, written by its code point
KelvinSign == "U+212A"

\* str.lower() per character, for the characters a city is written with
\* here: A-Z, the cased letters of Latin-1, and the Kelvin sign, the one
\* character outside ASCII that lower() turns into a letter of the
\* multiplier table's keys
UpperToLower ==
    [A |-> "a", B |-> "b", C |-> "c", D |-> "d", E |-> "e", F |-> "f",
     G |-> "g", H |-> "h", I |-> "i", J |-> "j", K |-> "k", L |-> "l",
     M |-> "m", N |-> "n", O |-> "o", P |-> "p", Q |-> "q", R |-> "r",
     S |-> "s", T |-> "t", U |-> "u", V |-> "v", W |-> "w", X |-> "x",
     Y |-> "y", Z |-> "z"]
    @@ ("À" :> "à") @@ ("Á" :> "á") @@ ("Â" :> "â") @@ ("Ã" :> "ã")
    @@ ("Ä" :> "ä") @@ ("Å" :> "å") @@ ("Æ" :> "æ") @@ ("Ç" :> "ç")
    @@ ("È" :> "è") @@ ("É" :> "é") @@ ("Ê" :> "ê") @@ ("Ë" :> "ë")
    @@ ("Ì" :> "ì") @@ ("Í" :> "í") @@ ("Î" :> "î") @@ ("Ï" :> "ï")
    @@ ("Ð" :> "ð") @@ ("Ñ" :> "ñ") @@ ("Ò" :> "ò") @@ ("Ó" :> "ó")
    @@ ("Ô" :> "ô") @@ ("Õ" :> "õ") @@ ("Ö" :> "ö") @@ ("Ø" :> "ø")
    @@ ("Ù" :> "ù") @@ ("Ú" :> "ú") @@ ("Û" :> "û") @@ ("Ü" :> "ü")
    @@ ("Ý" :> "ý") @@ ("Þ" :> "þ")
    @@ (KelvinSign :> "k")

LowerChar(c) == IF c \in DOMAIN UpperToLower THEN UpperToLower[c] ELSE c

\* str.lower()
lower(s) == [i \in 1..Len(s) |-> LowerChar(s[i])]

\* round(x, 2) of a value given in thousandths, in hundredths (half to even)
Round2(thousandths) ==
    LET q == thousandths \div 10
        r == thousandths % 10
    IN  IF r < 5 THEN q
        ELSE IF r > 5 THEN q + 1
        ELSE IF q % 2 = 0 THEN q ELSE q + 1

\* ------------------------------------------------------------------- enums
TripType == {"TripType.LEISURE", "TripType.BUSINESS", "TripType.ADVENTURE",
             "TripType.CULTURAL"}

BudgetRange == {"BudgetRange.BUDGET", "BudgetRange.MODERATE",
                "BudgetRange.LUXURY"}

\* x.value exists: x is a member of an Enum
HasValue(x) == x \in TripType \cup BudgetRange

PlannerState ==
    {"messages", "city", "country", "interests", "itinerary", "duration",
     "trip_type", "budget_range", "preferences", "weather_info",
     "local_events", "estimated_cost", "error_log", "performance_metrics"}

\* ------------------------------------------------ TravelPlannerService
paris == <<"p", "a", "r", "i", "s">>
london == <<"l", "o", "n", "d", "o", "n">>
tokyo == <<"t", "o", "k", "y", "o">>
new_york == <<"n", "e", "w", " ", "y", "o", "r", "k">>
bangkok == <<"b", "a", "n", "g", "k", "o", "k">>
mumbai == <<"m", "u", "m", "b", "a", "i">>

base_cost_per_day ==
    ("BudgetRange.BUDGET" :> 50) @@ ("BudgetRange.MODERATE" :> 150) @@
    ("BudgetRange.LUXURY" :> 400)

\* the multipliers 1.5, 1.4, 1.3, 1.6, 0.7, 0.5, in tenths
city_multiplier ==
    (paris :> 15) @@ (london :> 14) @@ (tokyo :> 13) @@ (new_york :> 16) @@
    (bangkok :> 7) @@ (mumbai :> 5)

\* (mutation of multiplier_of: the lookup key is not lower-cased)
multiplier_no_lower(city) == Get(city_multiplier, city, 10)

\* city_multiplier.get(state['city'].lower(), 1.0), in tenths
multiplier_of(city) == Get(city_multiplier, lower(city), 10)

\* base_cost_per_day.get(state['budget_range'], 150)
daily_cost_of(budget_range) == Get(base_cost_per_day, budget_range, 150)

\* calculate_estimated_cost: hundredths; a None duration makes the product
\* raise TypeError, which the method catches and answers with 0.0
calculate_estimated_cost(s) ==
    IF s.duration = NoneValue THEN 0
    ELSE Round2(daily_cost_of(s.budget_range) * s.duration[1]
                * multiplier_of(s.city) * 100)

\* main.py:56-63, 118: the singleton's fields; the client is a handle
TravelPlannerService ==
    [llm |-> "llama-3.1-8b-instant", performance_metrics |-> <<>>]

\* main.py:65-77 (the temperature's degree sign is left out of the string).
\* `api` is what the API call the try block stands for did: the simulated
\* response always succeeds; a call that raises is answered by line 75-77.
get_weather_data(city, country, api) ==
    IF api.kind = "raise" THEN [error |-> api.cause]
    ELSE [temperature |-> "22C", condition |-> "Partly Cloudy",
          forecast |-> "Pleasant weather expected",
          best_time_to_visit |-> "Morning and evening"]

\* main.py:79-93; the name f"Local Festival in {city}" keeps its two parts
get_local_events(city, duration, api) ==
    IF api.kind = "raise" THEN <<>>
    ELSE << [name |-> [text |-> "Local Festival in ", city |-> city],
             date |-> "2024-12-01", type |-> "Cultural", price |-> "Free"] >>

\* ---------------------------------------------------------------- messages
CityRequired == "City is required"
InterestsRequired == "Interests are required"
DurationTooSmall == "Duration must be at least 1 day"
\* str(e) of the TypeError raised by None < 1
NoneLessThanInt ==
    "'<' not supported between instances of 'NoneType' and 'int'"
\* str(e) of the AttributeError raised by "premium".value
StrHasNoValue == "'str' object has no attribute 'value'"
EmptyResponse == "Empty response from LLM"

\* ------------------------------------------------------------ validate_input
\* main.py:194-197
validation_errors(s) ==
    (IF Falsy(Get(s, "city", NoneValue)) THEN <<CityRequired>> ELSE <<>>)
    \o (IF Falsy(Get(s, "interests", NoneValue))
        THEN <<InterestsRequired>> ELSE <<>>)

\* main.py:201-207: each default only `if key not in state`
set_defaults(s) ==
    Merge([country |-> "Unknown", trip_type |-> "TripType.LEISURE",
           budget_range |-> "BudgetRange.MODERATE"], s)

\* main.py:198: None < 1 raises TypeError
validation_raises(s) == Get(s, "duration", IntValue(0)) = NoneValue

\* main.py:187-224. A None duration raises at line 198, before the defaults
\* and the timing: the except branch returns the errors so far plus str(e).
validate_input(s, processing_time) ==
    LET d == Get(s, "duration", IntValue(0))
        errors == validation_errors(s)
    IN  IF validation_raises(s)
        THEN Merge(s, [error_log |-> errors \o <<NoneLessThanInt>>])
        ELSE Merge(set_defaults(s),
                   [error_log |->
                        errors \o (IF d[1] < 1 THEN <<DurationTooSmall>>
                                   ELSE <<>>),
                    performance_metrics |->
                        Merge(Get(s, "performance_metrics", <<>>),
                              [validation_time |-> processing_time])])

\* -------------------------------------------------------- gather_travel_data
\* (mutation of gather_failure: the log is replaced instead of extended)
gather_failure_replaces_log(s, cause) ==
    Merge(s, [error_log |-> <<"Data gathering failed: " \o cause>>])

\* main.py:248-253
gather_failure(s, cause) ==
    Merge(s, [error_log |-> Get(s, "error_log", <<>>)
                            \o <<"Data gathering failed: " \o cause>>])

\* the states of a provider coroutine
Idle == [status |-> "idle"]
Pending == [status |-> "pending"]
Done(api, value) == [status |-> "done", api |-> api, value |-> value]

\* (mutation of await_gather: the first failed lookup's exception propagates)
await_gather_raises_on_failure(weather, events) ==
    IF weather.api.kind = "raise"
    THEN [kind |-> "raise", cause |-> weather.api.cause]
    ELSE IF events.api.kind = "raise"
    THEN [kind |-> "raise", cause |-> events.api.cause]
    ELSE [kind |-> "ok", weather_info |-> weather.value,
          local_events |-> events.value]

\* main.py:235: the results of the two finished coroutines, in argument order
await_gather(weather, events) ==
    [kind |-> "ok", weather_info |-> weather.value,
     local_events |-> events.value]

\* main.py:226-253; `lookups` is what awaiting the two provider calls did
gather_travel_data(s, processing_time, lookups) ==
    IF lookups.kind = "raise" THEN gather_failure(s, lookups.cause)
    ELSE Merge(s, [weather_info |-> lookups.weather_info,
                   local_events |-> lookups.local_events,
                   performance_metrics |->
                       Merge(Get(s, "performance_metrics", <<>>),
                             [data_gathering_time |-> processing_time])])

\* ------------------------------------------------- create_enhanced_itinerary
\* main.py:264-274: building the prompt context reads .value of both enums
context_error(s) ==
    IF /\ HasValue(Get(s, "trip_type", "TripType.LEISURE"))
       /\ HasValue(Get(s, "budget_range", "BudgetRange.MODERATE"))
    THEN <<>> ELSE <<StrHasNoValue>>

\* llm.invoke is reached only when the context was built
llm_invoked(s) == context_error(s) = <<>>

\* str(e) of the exception the try block of main.py:259-298 raises, if any
generation_error(s, response) ==
    IF ~llm_invoked(s) THEN context_error(s)
    ELSE IF response.kind = "raise" THEN <<response.cause>>
    ELSE IF response.kind = "empty" THEN <<EmptyResponse>>
    ELSE <<>>

\* (mutation of generation_failure: the message is logged, itinerary is not set)
generation_failure_log_only(s, cause) ==
    LET error_message == "Error generating itinerary: " \o cause
    IN  Merge(s, [error_log |-> Get(s, "error_log", <<>>) \o <<error_message>>])

\* (mutation of generation_failure: itinerary is set, the message is not logged)
generation_failure_not_logged(s, cause) ==
    LET error_message == "Error generating itinerary: " \o cause
    IN  Merge(s, [itinerary |-> error_message])

\* main.py:299-306
generation_failure(s, cause) ==
    LET error_message == "Error generating itinerary: " \o cause
    IN  Merge(s, [itinerary |-> error_message,
                  error_log |-> Get(s, "error_log", <<>>) \o <<error_message>>])

\* main.py:296
total_processing_time(s, processing_time) ==
    SumValues(Get(s, "performance_metrics", <<>>)) + processing_time

\* (mutation of generation_success: the assistant turn replaces the history)
generation_success_drops_history(s, processing_time, content) ==
    Merge(s, [itinerary |-> content,
              estimated_cost |-> calculate_estimated_cost(s),
              messages |-> <<[role |-> "ai", content |-> content]>>,
              performance_metrics |->
                  Merge(Get(s, "performance_metrics", <<>>),
                        [itinerary_generation_time |-> processing_time,
                         total_processing_time |->
                             total_processing_time(s, processing_time)])])

\* main.py:288-298
generation_success(s, processing_time, content) ==
    Merge(s, [itinerary |-> content,
              estimated_cost |-> calculate_estimated_cost(s),
              messages |-> Get(s, "messages", <<>>)
                           \o <<[role |-> "ai", content |-> content]>>,
              performance_metrics |->
                  Merge(Get(s, "performance_metrics", <<>>),
                        [itinerary_generation_time |-> processing_time,
                         total_processing_time |->
                             total_processing_time(s, processing_time)])])

\* main.py:255-306
create_enhanced_itinerary(s, processing_time, response) ==
    LET e == generation_error(s, response)
    IN  IF e # <<>> THEN generation_failure(s, e[1])
        ELSE generation_success(s, processing_time, response.content)

\* ------------------------------------------------ build_travel_planner_graph
entry_point == "validate_input"

\* (mutation of next_node: validate_input is wired straight to generation)
next_node_skips_gather(node) ==
    CASE node = "validate_input" -> "create_enhanced_itinerary"
      [] node = "gather_travel_data" -> "create_enhanced_itinerary"
      [] node = "create_enhanced_itinerary" -> "END"

\* main.py:320-322
next_node(node) ==
    CASE node = "validate_input" -> "gather_travel_data"
      [] node = "gather_travel_data" -> "create_enhanced_itinerary"
      [] node = "create_enhanced_itinerary" -> "END"

Nodes == {"validate_input", "gather_travel_data", "create_enhanced_itinerary"}

\* -------------------------------------------------------- run_travel_planner
default_state ==
    [messages |-> <<>>, city |-> <<>>, country |-> "", interests |-> <<>>,
     itinerary |-> "", duration |-> IntValue(1),
     trip_type |-> "TripType.LEISURE",
     budget_range |-> "BudgetRange.MODERATE", preferences |-> <<>>,
     weather_info |-> <<>>, local_events |-> <<>>, estimated_cost |-> 0,
     error_log |-> <<>>, performance_metrics |-> <<>>]

\* (mutation of system_error_state: the message is logged, itinerary is not set)
system_error_state_log_only(s, cause) ==
    Merge(s, [error_log |-> <<"System error: " \o cause>>])

\* main.py:369-376
system_error_state(s, cause) ==
    LET error_message == "System error: " \o cause
    IN  Merge(s, [itinerary |-> error_message,
                  error_log |-> <<error_message>>])

\* ------------------------------------------------------------------ inputs
Restrict(f, S) == [k \in S |-> f[k]]

Cities ==
    { <<>>,
      <<"P", "a", "r", "i", "s">>,
      <<"L", "O", "N", "D", "O", "N">>,
      <<"T", "o", "k", "y", "o">>,
      <<"N", "e", "w", " ", "Y", "o", "r", "k">>,
      <<"B", "a", "n", "g", KelvinSign, "o", "k">>,
      <<"M", "u", "m", "b", "a", "i">>,
      <<"A", "t", "l", "a", "n", "t", "i", "s">> }

Durations == {NoneValue} \cup {IntValue(n) : n \in 0..MaxDuration}

\* the three tiers, an enum member that is no tier, and a plain string
Budgets == BudgetRange \cup {"TripType.CULTURAL", "premium"}

InterestLists == {<<>>, <<"food", "temples">>}

\* app.py:149-162 with the form filled in: Tokyo, Japan, 3 days, interests
\* "food, temples", leisure, moderate, Walking, no dietary restrictions
initial_state ==
    [messages |->
         <<[role |-> "human",
            content |-> "I want to plan a 3-day leisure trip to Tokyo, Japan."]>>,
     city |-> <<"T", "o", "k", "y", "o">>, country |-> "Japan",
     interests |-> <<"food", "temples">>, itinerary |-> "",
     duration |-> IntValue(3), trip_type |-> "TripType.LEISURE",
     budget_range |-> "BudgetRange.MODERATE",
     preferences |-> [transportation |-> <<"Walking">>,
                      dietary_restrictions |-> <<"None">>]]

\* a caller that supplies every key of PlannerState: the form's record with
\* the fields the steps fill in still empty
FreshState ==
    Merge([weather_info |-> <<>>, local_events |-> <<>>, estimated_cost |-> 0,
           error_log |-> <<>>, performance_metrics |-> <<>>],
          initial_state)

\* a record carried over from earlier processing
UsedState ==
    [messages |-> <<[role |-> "human", content |-> "Plan my trip."]>>,
     city |-> <<"P", "a", "r", "i", "s">>, country |-> "France",
     interests |-> <<"museums">>, itinerary |-> "",
     duration |-> IntValue(2), trip_type |-> "TripType.BUSINESS",
     budget_range |-> "BudgetRange.LUXURY",
     preferences |-> [transportation |-> "Walking"],
     weather_info |-> <<>>, local_events |-> <<>>, estimated_cost |-> 9900,
     error_log |-> <<"earlier entry">>,
     performance_metrics |-> [queue_time |-> 1]]

\* every city, duration and budget with interests given, and every city and
\* duration with each interest list at the form's budget
ValueInputs ==
    { [FreshState EXCEPT !.city = c, !.duration = d, !.budget_range = b] :
        c \in Cities, d \in Durations, b \in Budgets }
    \cup
    { [FreshState EXCEPT !.city = c, !.duration = d, !.interests = i] :
        c \in Cities, d \in Durations, i \in InterestLists }

\* partial records: at most one key given, or at most MaxOmitted keys omitted
KeySets ==
    { S \in SUBSET PlannerState :
        Cardinality(S) <= 1 \/ Cardinality(PlannerState \ S) <= MaxOmitted }

PartialInputs == { Restrict(UsedState, S) : S \in KeySets }

InputStates == ValueInputs \cup PartialInputs \cup {initial_state}

\* (datetime.now() - start_time).total_seconds() on the wall clock: the clock
\* stepped back during the step, did not move, or advanced
Times == {-MaxTime, 0, MaxTime}

LookupOutcomes == {[kind |-> "ok"], [kind |-> "raise", cause |-> "lookup failed"]}

\* what the API call inside a provider's try block did
ApiOutcomes == {[kind |-> "ok"], [kind |-> "raise", cause |-> "API timeout"]}

LlmResponses ==
    { [kind |-> "text", content |-> "# 3-Day Trip: Day 1 ..."],
      [kind |-> "empty"],
      [kind |-> "raise", cause |-> "rate limit exceeded"],
      [kind |-> "raise", cause |-> ""] }

EngineFaults == {"graph execution failed", ""}

\* ------------------------------------------------------------- transitions
Init ==
    /\ state \in InputStates
    /\ final_state = <<>>
    /\ result = <<>>
    /\ pc = "start"
    /\ outcome = "running"
    /\ trace = <<>>
    /\ node_inputs = <<>>
    /\ step_failed = <<>>
    /\ llm_calls = <<>>
    /\ engine_error = NoneValue
    /\ weather_task = Idle
    /\ events_task = Idle
    /\ lookup_log = <<>>
    /\ llm_task = Idle
    /\ node_outputs = <<>>
    /\ travel_service = TravelPlannerService
    /\ runs = <<>>
    /\ overlapped = FALSE

\* main.py:334-359: merge the argument over the defaults, start the graph
Start ==
    /\ pc = "start"
    /\ final_state' = Merge(default_state, state)
    /\ pc' = entry_point
    /\ UNCHANGED <<state, result, outcome, trace, node_inputs, step_failed,
                   llm_calls, engine_error, task_vars, node_outputs,
                   concurrent_vars>>

\* one node of the graph, then main.py:360-364 on the update it yields
RunNode(node, node_output, failed) ==
    /\ pc = node
    /\ final_state' = stream_update(final_state, node_output)
    /\ pc' = next_node(node)
    /\ trace' = Append(trace, node)
    /\ node_inputs' = Append(node_inputs, final_state)
    /\ node_outputs' = Append(node_outputs, node_output)
    /\ step_failed' = Append(step_failed, failed)
    /\ UNCHANGED <<state, result, outcome, engine_error, concurrent_vars>>

ValidateInput ==
    \E t \in Times :
        /\ RunNode("validate_input", validate_input(final_state, t),
                   validation_raises(final_state))
        /\ UNCHANGED <<llm_calls, task_vars>>

\* main.py:228-235: both coroutines are created and handed to asyncio.gather
GatherStart ==
    /\ pc = "gather_travel_data"
    /\ weather_task = Idle /\ events_task = Idle
    /\ weather_task' = Pending
    /\ events_task' = Pending
    /\ UNCHANGED <<state, final_state, result, pc, outcome, trace, node_inputs,
                   step_failed, llm_calls, engine_error, lookup_log,
                   llm_task, node_outputs, concurrent_vars>>

\* main.py:65-77 runs to its return
WeatherLookup ==
    \E api \in ApiOutcomes :
        /\ weather_task = Pending
        /\ weather_task' =
               Done(api, get_weather_data(final_state.city,
                                          final_state.country, api))
        /\ lookup_log' = Append(lookup_log, "weather")
        /\ UNCHANGED <<state, final_state, result, pc, outcome, trace,
                       node_inputs, step_failed, llm_calls, engine_error,
                       events_task, llm_task, node_outputs,
                       concurrent_vars>>

\* main.py:79-93 runs to its return
EventsLookup ==
    \E api \in ApiOutcomes :
        /\ events_task = Pending
        /\ events_task' =
               Done(api, get_local_events(final_state.city,
                                          final_state.duration, api))
        /\ lookup_log' = Append(lookup_log, "events")
        /\ UNCHANGED <<state, final_state, result, pc, outcome, trace,
                       node_inputs, step_failed, llm_calls, engine_error,
                       weather_task, llm_task, node_outputs,
                       concurrent_vars>>

\* main.py:235-253: the await returns once both coroutines are done (or
\* raises), and the node returns its update; its locals go with it
GatherTravelData ==
    \E t \in Times, awaited \in LookupOutcomes :
        LET lookups == IF awaited.kind = "raise" THEN awaited
                       ELSE await_gather(weather_task, events_task)
        IN  /\ weather_task.status = "done" /\ events_task.status = "done"
            /\ RunNode("gather_travel_data",
                       gather_travel_data(final_state, t, lookups),
                       lookups.kind = "raise")
            /\ weather_task' = Idle
            /\ events_task' = Idle
            /\ lookup_log' = Append(lookup_log, awaited.kind)
            /\ UNCHANGED <<llm_calls, llm_task>>

\* main.py:257-281: the cost and the context are computed, llm.invoke is
\* handed to a worker thread and the step awaits it
GenerationStart ==
    /\ pc = "create_enhanced_itinerary"
    /\ llm_task = Idle
    /\ llm_invoked(final_state)
    /\ llm_task' = Pending
    /\ UNCHANGED <<state, final_state, result, pc, outcome, trace, node_inputs,
                   step_failed, llm_calls, engine_error, weather_task,
                   events_task, lookup_log, node_outputs, concurrent_vars>>

\* main.py:277-306: the thread's answer (or what building the context
\* raised, without a thread) becomes the node's update
CreateEnhancedItinerary ==
    \E t \in Times, response \in LlmResponses :
        /\ llm_task = IF llm_invoked(final_state) THEN Pending ELSE Idle
        /\ RunNode("create_enhanced_itinerary",
                   create_enhanced_itinerary(final_state, t, response),
                   generation_error(final_state, response) # <<>>)
        /\ llm_calls' = IF llm_invoked(final_state)
                        THEN Append(llm_calls, response) ELSE llm_calls
        /\ llm_task' = Idle
        /\ UNCHANGED <<weather_task, events_task, lookup_log>>

\* main.py:366-367
Return ==
    /\ pc = "END"
    /\ result' = final_state
    /\ outcome' = "completed"
    /\ pc' = "returned"
    /\ UNCHANGED <<state, final_state, trace, node_inputs, step_failed,
                   llm_calls, engine_error, task_vars, node_outputs,
                   concurrent_vars>>

\* app.astream raises between two nodes, before the first or after the last;
\* main.py:369-376 turns it into the returned error state
EngineFault ==
    \E cause \in EngineFaults :
        /\ pc \in Nodes \cup {"END"}
        /\ weather_task = Idle /\ events_task = Idle /\ llm_task = Idle
        /\ result' = system_error_state(state, cause)
        /\ outcome' = "system_error"
        /\ pc' = "returned"
        /\ engine_error' = <<cause>>
        /\ UNCHANGED <<state, final_state, trace, node_inputs, step_failed,
                       llm_calls, task_vars, node_outputs, concurrent_vars>>

\* the task running run_travel_planner is cancelled where it is suspended:
\* in the stream (main.py:359), in asyncio.gather (235) or awaiting the
\* thread (277). CancelledError is no Exception, so neither the node's nor
\* the wrapper's except clause catches it and nothing is returned; pending
\* lookups are cancelled with the step, the worker thread runs on.
Cancel ==
    /\ pc \in Nodes \cup {"END"}
    /\ pc' = "cancelled"
    /\ outcome' = "cancelled"
    /\ weather_task' = Idle
    /\ events_task' = Idle
    /\ UNCHANGED <<state, final_state, result, trace, node_inputs, step_failed,
                   llm_calls, engine_error, lookup_log, llm_task,
                   node_outputs, concurrent_vars>>

Next ==
    \/ Start
    \/ ValidateInput
    \/ GatherStart
    \/ WeatherLookup
    \/ EventsLookup
    \/ GatherTravelData
    \/ GenerationStart
    \/ CreateEnhancedItinerary
    \/ Return
    \/ EngineFault
    \/ Cancel

Spec == Init /\ [][Next]_vars

\* ------------------------------------------- the wrapper's merge on its own
\* main.py:359-364 taken for what it does to any update the stream yields:
\* the running state is a caller's record over the defaults, and the graph
\* yields up to MaxUpdates updates before the stream ends.
MergeInputs == PartialInputs \cup {FreshState, initial_state}

StepUpdates ==
    { <<>>,
      [performance_metrics |-> [validation_time |-> 1]],
      [weather_info |-> [error |-> "API timeout"], local_events |-> <<>>],
      [itinerary |-> "Error generating itinerary: " \o EmptyResponse,
       error_log |-> <<"Error generating itinerary: " \o EmptyResponse>>],
      [warnings |-> <<"late">>],
      validate_input(Merge(default_state, FreshState), 1) }

MergeInit ==
    /\ state \in MergeInputs
    /\ final_state = Merge(default_state, state)
    /\ result = <<>>
    /\ pc = "astream"
    /\ outcome = "running"
    /\ trace = <<>>
    /\ node_inputs = <<>>
    /\ step_failed = <<>>
    /\ llm_calls = <<>>
    /\ engine_error = NoneValue
    /\ weather_task = Idle
    /\ events_task = Idle
    /\ lookup_log = <<>>
    /\ llm_task = Idle
    /\ node_outputs = <<>>
    /\ travel_service = TravelPlannerService
    /\ runs = <<>>
    /\ overlapped = FALSE

\* main.py:359-364: one update arrives and is merged
StreamUpdate ==
    \E node_output \in StepUpdates :
        /\ pc = "astream"
        /\ Len(node_outputs) < MaxUpdates
        /\ final_state' = stream_update(final_state, node_output)
        /\ node_inputs' = Append(node_inputs, final_state)
        /\ node_outputs' = Append(node_outputs, node_output)
        /\ UNCHANGED <<state, result, pc, outcome, trace, step_failed,
                       llm_calls, engine_error, task_vars, concurrent_vars>>

\* main.py:359: the stream is exhausted
StreamEnd ==
    /\ pc = "astream"
    /\ pc' = "END"
    /\ UNCHANGED <<state, final_state, result, outcome, trace, node_inputs,
                   step_failed, llm_calls, engine_error, task_vars,
                   node_outputs, concurrent_vars>>

MergeNext ==
    \/ StreamUpdate
    \/ StreamEnd
    \/ Return

SpecMerge == MergeInit /\ [][MergeNext]_vars

\* ------------------------------------------------ two invocations at once
\* Two coroutines of run_travel_planner on one event loop, each called with
\* its own state record. The loop switches between them where they await:
\* between the steps of the graph, in asyncio.gather (main.py:235) and
\* awaiting the worker thread (main.py:277), where both may be inside
\* llm.invoke at once. Each entry of `runs` holds the locals of one
\* invocation and, as history, what its environment did at each step.
Invocations == 1..2

\* the record each of the two callers passes: the form's, and one carried
\* over from earlier processing
ConcurrentInputs == <<initial_state, UsedState>>

ConcurrentResponses ==
    { [kind |-> "text", content |-> "# 3-Day Trip: Day 1 ..."],
      [kind |-> "raise", cause |-> "rate limit exceeded"] }

\* the clock of an invocation reads as in a run on its own
ClockReadings == Times

\* what the environment of one step did: the time it took, and what the
\* lookups or the generation service answered
StepChoices(node) ==
    IF node = "validate_input" THEN {[t |-> t] : t \in ClockReadings}
    ELSE IF node = "gather_travel_data"
    THEN {[t |-> t, lookups |-> l] :
              t \in ClockReadings, l \in LookupOutcomes}
    ELSE {[t |-> t, response |-> r] :
              t \in ClockReadings, r \in ConcurrentResponses}

\* main.py:314-316: the function registered under each node name, applied
node_output(node, s, choice) ==
    IF node = "validate_input" THEN validate_input(s, choice.t)
    ELSE IF node = "gather_travel_data"
    THEN LET ok == [kind |-> "ok"]
             lookups ==
                 IF choice.lookups.kind = "raise" THEN choice.lookups
                 ELSE await_gather(
                          Done(ok, get_weather_data(s.city, s.country, ok)),
                          Done(ok, get_local_events(s.city, s.duration, ok)))
         IN  gather_travel_data(s, choice.t, lookups)
    ELSE create_enhanced_itinerary(s, choice.t, choice.response)

\* (mutation of node_state: final_state is one record the invocations
\* share, the first one's once it exists)
node_state_shared(rs, i) ==
    IF rs[1].final_state # <<>> THEN rs[1].final_state ELSE rs[i].final_state

\* main.py:356-359: an invocation streams its own local final_state
node_state(rs, i) == rs[i].final_state

NewRun(st) ==
    [state |-> st, final_state |-> <<>>, result |-> <<>>, pc |-> "start",
     weather_task |-> Idle, events_task |-> Idle, llm_task |-> Idle,
     choices |-> <<>>]

\* an invocation that has entered its graph and not yet returned
InFlight(run) == run.pc \in Nodes \cup {"END"}

\* an invocation inside a step, awaiting its lookups or its worker thread
Suspended(run) ==
    /\ run.pc \in Nodes
    /\ run.weather_task # Idle \/ run.llm_task # Idle

ConcurrentInit ==
    /\ runs = [i \in Invocations |-> NewRun(ConcurrentInputs[i])]
    /\ travel_service = TravelPlannerService
    /\ overlapped = FALSE
    /\ state = <<>>
    /\ final_state = <<>>
    /\ result = <<>>
    /\ pc = "gathering"
    /\ outcome = "running"
    /\ trace = <<>>
    /\ node_inputs = <<>>
    /\ step_failed = <<>>
    /\ llm_calls = <<>>
    /\ engine_error = NoneValue
    /\ weather_task = Idle
    /\ events_task = Idle
    /\ lookup_log = <<>>
    /\ llm_task = Idle
    /\ node_outputs = <<>>

single_vars ==
    <<state, final_state, result, pc, outcome, trace, node_inputs,
      step_failed, llm_calls, engine_error, task_vars, node_outputs>>

\* main.py:334-359 in invocation i
RunStart(i) ==
    /\ runs[i].pc = "start"
    /\ runs' = [runs EXCEPT ![i].final_state =
                                Merge(default_state, runs[i].state),
                            ![i].pc = entry_point]
    /\ UNCHANGED <<travel_service, overlapped, single_vars>>

\* main.py:228-235 in invocation i: its two coroutines are created and awaited
RunGatherStart(i) ==
    /\ runs[i].pc = "gather_travel_data"
    /\ runs[i].weather_task = Idle /\ runs[i].events_task = Idle
    /\ runs' = [runs EXCEPT ![i].weather_task = Pending,
                            ![i].events_task = Pending]
    /\ UNCHANGED <<travel_service, overlapped, single_vars>>

\* main.py:65-77 for invocation i
RunWeatherLookup(i) ==
    /\ runs[i].weather_task = Pending
    /\ runs' = [runs EXCEPT
                   ![i].weather_task =
                       Done([kind |-> "ok"],
                            get_weather_data(node_state(runs, i).city,
                                             node_state(runs, i).country,
                                             [kind |-> "ok"]))]
    /\ UNCHANGED <<travel_service, overlapped, single_vars>>

\* main.py:79-93 for invocation i
RunEventsLookup(i) ==
    /\ runs[i].events_task = Pending
    /\ runs' = [runs EXCEPT
                   ![i].events_task =
                       Done([kind |-> "ok"],
                            get_local_events(node_state(runs, i).city,
                                             node_state(runs, i).duration,
                                             [kind |-> "ok"]))]
    /\ UNCHANGED <<travel_service, overlapped, single_vars>>

\* main.py:257-281 in invocation i: llm.invoke goes to a worker thread
RunGenerationStart(i) ==
    /\ runs[i].pc = "create_enhanced_itinerary"
    /\ runs[i].llm_task = Idle
    /\ llm_invoked(node_state(runs, i))
    /\ runs' = [runs EXCEPT ![i].llm_task = Pending]
    /\ UNCHANGED <<travel_service, overlapped, single_vars>>

\* the step of invocation i can return: it awaits nothing any more
StepReady(run, s) ==
    IF run.pc = "gather_travel_data"
    THEN run.weather_task.status = "done" /\ run.events_task.status = "done"
    ELSE IF run.pc = "create_enhanced_itinerary"
    THEN run.llm_task = IF llm_invoked(s) THEN Pending ELSE Idle
    ELSE TRUE

\* the update the step of invocation i returns; the gathering step takes
\* the values its own two coroutines returned
step_output(run, s, choice) ==
    IF run.pc = "gather_travel_data"
    THEN gather_travel_data(s, choice.t,
                            IF choice.lookups.kind = "raise"
                            THEN choice.lookups
                            ELSE await_gather(run.weather_task,
                                              run.events_task))
    ELSE node_output(run.pc, s, choice)

\* a node of invocation i's graph returns, then main.py:360-364 on its
\* update; the nodes call travel_service's methods and assign none of its
\* fields
RunStep(i) ==
    \E choice \in StepChoices(runs[i].pc) :
        /\ runs[i].pc \in Nodes
        /\ StepReady(runs[i], node_state(runs, i))
        /\ runs' = [runs EXCEPT
                       ![i].final_state =
                           stream_update(
                               runs[i].final_state,
                               step_output(runs[i], node_state(runs, i),
                                           choice)),
                       ![i].pc = next_node(runs[i].pc),
                       ![i].weather_task = Idle,
                       ![i].events_task = Idle,
                       ![i].llm_task = Idle,
                       ![i].choices = Append(runs[i].choices, choice)]
        /\ overlapped' =
               (overlapped \/ \E j \in Invocations \ {i} : Suspended(runs[j]))
        /\ UNCHANGED <<travel_service, single_vars>>

\* main.py:366-367 in invocation i
RunReturn(i) ==
    /\ runs[i].pc = "END"
    /\ runs' = [runs EXCEPT ![i].result = runs[i].final_state,
                            ![i].pc = "returned"]
    /\ UNCHANGED <<travel_service, overlapped, single_vars>>

\* main.py:369-376 in invocation i: its stream raised between two nodes
RunFault(i) ==
    /\ runs[i].pc \in Nodes \cup {"END"}
    /\ ~Suspended(runs[i])
    /\ runs' = [runs EXCEPT
                   ![i].result = system_error_state(runs[i].state,
                                                    "graph execution failed"),
                   ![i].pc = "returned",
                   ![i].choices =
                       Append(runs[i].choices,
                              [fault |-> "graph execution failed"])]
    /\ UNCHANGED <<travel_service, overlapped, single_vars>>

\* the task of invocation i is cancelled where it is suspended; it returns
\* nothing, and the other invocation is a task of its own
RunCancel(i) ==
    /\ InFlight(runs[i])
    /\ runs' = [runs EXCEPT ![i].pc = "cancelled",
                            ![i].weather_task = Idle,
                            ![i].events_task = Idle]
    /\ UNCHANGED <<travel_service, overlapped, single_vars>>

ConcurrentNext ==
    \E i \in Invocations :
        \/ RunStart(i)
        \/ RunGatherStart(i)
        \/ RunWeatherLookup(i)
        \/ RunEventsLookup(i)
        \/ RunGenerationStart(i)
        \/ RunStep(i)
        \/ RunReturn(i)
        \/ RunFault(i)
        \/ RunCancel(i)

SpecConcurrent == ConcurrentInit /\ [][ConcurrentNext]_vars

\* ================================================================== claims
Range(seq) == {seq[i] : i \in 1..Len(seq)}

Order == <<"validate_input", "gather_travel_data", "create_enhanced_itinerary">>

Returned == pc = "returned"
Completed == pc = "returned" /\ outcome = "completed"

\* the generation service was invoked and answered with text
LlmAnswered == llm_calls # <<>> /\ llm_calls[1].kind = "text"
\* the generation service was invoked and raised or returned empty content
LlmFailed == llm_calls # <<>> /\ llm_calls[1].kind \in {"raise", "empty"}
LlmCause ==
    IF llm_calls[1].kind = "raise" THEN llm_calls[1].cause ELSE EmptyResponse

\* the caller's state has no usable city / interests / duration
CityMissing == Falsy(Get(state, "city", NoneValue))
InterestsMissing == Falsy(Get(state, "interests", NoneValue))
ValidInput ==
    /\ ~CityMissing
    /\ ~InterestsMissing
    /\ Get(state, "duration", IntValue(1)) # NoneValue
    /\ Get(state, "duration", IntValue(1))[1] >= 1

\* C1: whatever the initial state and whatever the generation service does,
\* the state run_travel_planner returns has a non-empty itinerary.
C1_ItineraryNonEmpty ==
    Returned => "itinerary" \in DOMAIN result /\ result.itinerary # ""

\* a valid input whose generation succeeded, and the text is the itinerary
C1_Witness ==
    /\ Completed /\ ValidInput /\ LlmAnswered
    /\ result.itinerary = llm_calls[1].content

\* an invalid input whose generation raised with an empty message
C1_WitnessFailure ==
    /\ Completed /\ CityMissing /\ LlmFailed /\ LlmCause = ""
    /\ result.itinerary = "Error generating itinerary: "

\* C2: when the generation service raises or returns empty content, the
\* generation step still completes (the engine moves on to END and, unless
\* the caller cancels the run, the wrapper returns), and the state
\* the wrapper returns has itinerary = "Error generating itinerary: <cause>",
\* that string as the last error_log entry, and an error_log one longer than
\* the one the generation step started with.
C2_GenerationFailureReported ==
    LlmFailed =>
        LET error_message == "Error generating itinerary: " \o LlmCause
            before == node_inputs[3].error_log
        IN  /\ outcome # "cancelled" => pc \in {"END", "returned"}
            /\ step_failed[3]
            /\ Completed =>
                /\ result.itinerary = error_message
                /\ result.error_log = before \o <<error_message>>
                /\ result.error_log[Len(result.error_log)] = error_message
                /\ Len(result.error_log) >= Len(before) + 1

\* the service returned empty content after validation had logged an error
C2_Witness ==
    /\ Completed /\ LlmFailed /\ llm_calls[1].kind = "empty"
    /\ Len(result.error_log) >= 2
    /\ result.itinerary = "Error generating itinerary: Empty response from LLM"

\* C3: a missing or empty city or interests does not stop the pipeline: unless
\* the engine itself faults, all three steps run and the wrapper returns, and
\* from the end of validation on (after data gathering, after generation and
\* in the returned state) error_log holds "City is required" when city is
\* missing and "Interests are required" when interests are missing.
C3_MissingFieldsLogged ==
    LET log == IF Returned THEN result.error_log ELSE final_state.error_log
    IN  /\ outcome # "system_error" /\ Len(trace) >= 1 =>
            /\ CityMissing => CityRequired \in Range(log)
            /\ InterestsMissing => InterestsRequired \in Range(log)
        /\ Completed => trace = Order

\* both fields missing, data gathering failed, generation failed: both
\* validation entries are still in the returned log
C3_Witness ==
    /\ Completed /\ CityMissing /\ InterestsMissing
    /\ step_failed[2] /\ step_failed[3]
    /\ SubSeq(result.error_log, 1, 2) = <<CityRequired, InterestsRequired>>
    /\ Len(result.error_log) = 4

\* C4: when app.astream raises, run_travel_planner returns (it does not
\* raise) a state whose itinerary is "System error: <cause>" and whose
\* error_log contains that message.
C4_SystemErrorState ==
    engine_error # NoneValue =>
        /\ pc = "returned" /\ outcome = "system_error"
        /\ "itinerary" \in DOMAIN result /\ "error_log" \in DOMAIN result
        /\ result.itinerary = "System error: " \o engine_error[1]
        /\ result.itinerary \in Range(result.error_log)

\* the engine raised after two nodes had run
C4_Witness ==
    /\ engine_error = <<"graph execution failed">>
    /\ Len(trace) = 2
    /\ result.itinerary = "System error: graph execution failed"

\* C5: the returned state contains every documented key, on every path.
C5_AllKeysReturned == Returned => PlannerState \subseteq DOMAIN result

\* the cost the documentation states, in hundredths: perDay x duration x
\* multiplier, perDay by tier (150 for anything else), multiplier by
\* lower-cased city (1.0, ten tenths, for anything else)
PerDay(budget_range) ==
    CASE budget_range = "BudgetRange.BUDGET" -> 50
      [] budget_range = "BudgetRange.MODERATE" -> 150
      [] budget_range = "BudgetRange.LUXURY" -> 400
      [] OTHER -> 150

MultiplierTenths(city) ==
    LET c == lower(city)
    IN  CASE c = <<"p", "a", "r", "i", "s">> -> 15
          [] c = <<"l", "o", "n", "d", "o", "n">> -> 14
          [] c = <<"t", "o", "k", "y", "o">> -> 13
          [] c = <<"n", "e", "w", " ", "y", "o", "r", "k">> -> 16
          [] c = <<"b", "a", "n", "g", "k", "o", "k">> -> 7
          [] c = <<"m", "u", "m", "b", "a", "i">> -> 5
          [] OTHER -> 10

DocumentedCost(budget_range, days, city) ==
    PerDay(budget_range) * days * MultiplierTenths(city) * 10

\* C6: for the state s the generation step is called with (duration an int),
\* calculate_estimated_cost(s) is perDay x duration x multiplier with the
\* documented tables and fallbacks (150, 1.0); after a run whose generation
\* succeeded the returned estimated_cost is that value; Tokyo/3/moderate is
\* 585.0, Paris/3/moderate 675.0, an unknown city/1/budget 50.0.
C6_EstimatedCost ==
    Len(node_inputs) = 3 =>
        LET s == node_inputs[3]
            expected == DocumentedCost(s.budget_range, s.duration[1], s.city)
        IN  s.duration # NoneValue =>
                /\ calculate_estimated_cost(s) = expected
                /\ Completed /\ LlmAnswered =>
                    /\ result.estimated_cost = expected
                    /\ ( /\ s.city = <<"T", "o", "k", "y", "o">>
                         /\ s.duration = IntValue(3)
                         /\ s.budget_range = "BudgetRange.MODERATE"
                         => result.estimated_cost = 58500 )
                    /\ ( /\ s.city = <<"P", "a", "r", "i", "s">>
                         /\ s.duration = IntValue(3)
                         /\ s.budget_range = "BudgetRange.MODERATE"
                         => result.estimated_cost = 67500 )
                    /\ ( /\ s.city = <<"A", "t", "l", "a", "n", "t", "i", "s">>
                         /\ s.duration = IntValue(1)
                         /\ s.budget_range = "BudgetRange.BUDGET"
                         => result.estimated_cost = 5000 )

\* generation succeeded for New York (mixed case), 3 days, an unknown tier
C6_Witness ==
    /\ Completed /\ LlmAnswered
    /\ result.city = <<"N", "e", "w", " ", "Y", "o", "r", "k">>
    /\ result.duration = IntValue(3)
    /\ result.budget_range = "TripType.CULTURAL"
    /\ result.estimated_cost = 72000

\* the observable error_log at every boundary of the run: the caller's, then
\* the one each node was called with, then the current (or returned) one
LogHistory ==
    <<Get(state, "error_log", <<>>)>>
    \o [i \in 1..Len(node_inputs) |-> node_inputs[i].error_log]
    \o (IF pc = "start" THEN <<>>
        ELSE IF Returned THEN <<Get(result, "error_log", <<>>)>>
        ELSE <<final_state.error_log>>)

\* C7: error_log is append-only: each observable error_log of a run is an
\* extension of every earlier one, from the caller's error_log on.
C7_ErrorLogAppendOnly ==
    \A i, j \in 1..Len(LogHistory) :
        i <= j => IsPrefix(LogHistory[i], LogHistory[j])

\* C8: after a run in which all three steps succeeded, performance_metrics
\* has validation_time, data_gathering_time, itinerary_generation_time and
\* total_processing_time; the total is the sum of the metrics recorded before
\* generation plus the generation time, and is >= each of the three timings.
\* (The sum is what the code computes; the comparison fails when a timing is
\* negative, which the wall-clock difference of main.py:209 can be.)
C8_TotalProcessingTime ==
    /\ Completed
    /\ ~step_failed[1] /\ ~step_failed[2] /\ ~step_failed[3]
    => LET m == result.performance_metrics
       IN  /\ {"validation_time", "data_gathering_time",
               "itinerary_generation_time", "total_processing_time"}
                  \subseteq DOMAIN m
           /\ m.total_processing_time =
                  SumValues(node_inputs[3].performance_metrics)
                  + m.itinerary_generation_time
           /\ m.total_processing_time >= m.validation_time
           /\ m.total_processing_time >= m.data_gathering_time
           /\ m.total_processing_time >= m.itinerary_generation_time

\* C9: the nodes run in the order validate_input, gather_travel_data,
\* create_enhanced_itinerary, each once, whatever the state holds and whether
\* or not a node failed; a run that completes has run all three; llm.invoke
\* is called at most once, and only by the third node, after data gathering.
C9_FixedOrder ==
    /\ IsPrefix(trace, Order)
    /\ \A i \in 1..3 : pc = Order[i] => Len(trace) = i - 1
    /\ pc = "END" => trace = Order
    /\ Completed => trace = Order
    /\ Len(llm_calls) <= 1
    /\ llm_calls # <<>> => trace = Order /\ Len(step_failed) = 3
    /\ (llm_task = Pending /\ llm_calls = <<>>) =>
           trace = SubSeq(Order, 1, 2)

\* validation and data gathering both failed and the generation service was
\* still invoked, once
C9_Witness ==
    /\ Completed /\ trace = Order
    /\ step_failed[1] /\ step_failed[2]
    /\ Len(llm_calls) = 1

\* C10: a key the caller omitted among country, trip_type and budget_range
\* has validation's default in the returned state of a completed run:
\* "Unknown", leisure, moderate.
C10_ValidationDefaultsVisible ==
    Completed =>
        /\ "country" \notin DOMAIN state => result.country = "Unknown"
        /\ "trip_type" \notin DOMAIN state =>
               result.trip_type = "TripType.LEISURE"
        /\ "budget_range" \notin DOMAIN state =>
               result.budget_range = "BudgetRange.MODERATE"

\* the step in which gather_travel_data returns
GatherReturns == pc = "gather_travel_data" /\ Len(trace') > Len(trace)

\* C11: in gather_travel_data the weather and the events lookup are started
\* together, and the step returns only after both have completed, in
\* whichever order they did; when the await itself does not raise, a lookup
\* whose call failed does not fail the step and degrades only its own field
\* (weather_info is the mapping {"error": cause}, local_events is the empty
\* list), the other lookup's result is stored, and nothing is logged.
C11_LookupsIndependent ==
    [][ /\ (weather_task = Idle) <=> (events_task = Idle)
        /\ (weather_task' = Idle) <=> (events_task' = Idle)
        /\ GatherReturns =>
              /\ weather_task.status = "done" /\ events_task.status = "done"
              /\ Range(SubSeq(lookup_log, 1, 2)) = {"weather", "events"}
              /\ lookup_log'[3] = "ok" =>
                    /\ ~step_failed'[2]
                    /\ final_state'.error_log = final_state.error_log
                    /\ final_state'.weather_info = weather_task.value
                    /\ final_state'.local_events = events_task.value
                    /\ IF weather_task.api.kind = "raise"
                       THEN final_state'.weather_info =
                                [error |-> weather_task.api.cause]
                       ELSE DOMAIN final_state'.weather_info =
                                {"temperature", "condition", "forecast",
                                 "best_time_to_visit"}
                    /\ IF events_task.api.kind = "raise"
                       THEN final_state'.local_events = <<>>
                       ELSE /\ Len(final_state'.local_events) = 1
                            /\ final_state'.local_events[1].name.city =
                                   final_state.city
      ]_vars

\* the events lookup finished first, the weather lookup failed after it, and
\* the step stored the events next to the error-flagged weather mapping
C11_Witness ==
    /\ pc = "create_enhanced_itinerary"
    /\ lookup_log = <<"events", "weather", "ok">>
    /\ ~step_failed[2]
    /\ final_state.weather_info = [error |-> "API timeout"]
    /\ Len(final_state.local_events) = 1

\* the messages the run started with (main.py:339, 356)
InitialMessages == Get(state, "messages", <<>>)

\* C14: messages is append-only across a run that completes: validation and
\* data gathering leave it as the run received it; when generation succeeds
\* the returned messages are the initial messages followed by exactly one
\* assistant turn whose content is the itinerary; when generation fails the
\* returned messages are the initial messages, with no assistant turn, and
\* estimated_cost keeps the value it had before the generation step.
C14_MessagesAppendOnly ==
    /\ \A i \in 1..Len(node_inputs) : node_inputs[i].messages = InitialMessages
    /\ pc \in Nodes => final_state.messages = InitialMessages
    /\ (Completed /\ ~step_failed[3]) =>
           result.messages =
               InitialMessages \o <<[role |-> "ai", content |-> result.itinerary]>>
    /\ (Completed /\ step_failed[3]) =>
           /\ result.messages = InitialMessages
           /\ result.estimated_cost = node_inputs[3].estimated_cost

\* a run that started with one human turn and generated an itinerary
\* returns that turn followed by the assistant's
C14_Witness ==
    /\ Completed /\ ~step_failed[3]
    /\ Len(InitialMessages) = 1
    /\ Len(result.messages) = 2
    /\ result.messages[1] = InitialMessages[1]
    /\ result.messages[2].role = "ai"
    /\ result.messages[2].content = result.itinerary

\* the running state after the i-th update was merged
StateAfter(i) == IF i < Len(node_inputs) THEN node_inputs[i + 1] ELSE final_state

\* C12: merging a step's update into the running state is a shallow,
\* last-write-wins union per key: the result has the keys of both, a key the
\* update has takes the update's value whole, a key it lacks keeps the
\* running state's value, and an empty update leaves the state as it was.
C12_ShallowLastWriteWins ==
    \A i \in 1..Len(node_outputs) :
        LET before == node_inputs[i]
            update == node_outputs[i]
            after == StateAfter(i)
        IN  /\ DOMAIN after = DOMAIN before \cup DOMAIN update
            /\ \A k \in DOMAIN update : after[k] = update[k]
            /\ \A k \in DOMAIN before \ DOMAIN update : after[k] = before[k]
            /\ update = <<>> => after = before

\* an update that holds only a one-entry performance_metrics was merged
\* into a state whose performance_metrics had another entry: the update's
\* mapping replaced it whole, and the other keys kept their values
C12_Witness ==
    /\ Len(node_outputs) = 1
    /\ node_outputs[1] = [performance_metrics |-> [validation_time |-> 1]]
    /\ node_inputs[1].performance_metrics = [queue_time |-> 1]
    /\ final_state.performance_metrics = [validation_time |-> 1]
    /\ final_state.error_log = <<"earlier entry">>
    /\ final_state.error_log = node_inputs[1].error_log

\* what run_travel_planner returns for `st` when it runs with nothing beside
\* it and its environment makes the choices `choices`, step by step
RECURSIVE AloneFrom(_, _, _, _)
AloneFrom(st, running, node, choices) ==
    IF choices = <<>> THEN running
    ELSE IF "fault" \in DOMAIN Head(choices)
    THEN system_error_state(st, Head(choices).fault)
    ELSE AloneFrom(st,
                   stream_update(running,
                                 node_output(node, running, Head(choices))),
                   next_node(node), Tail(choices))

Alone(st, choices) ==
    AloneFrom(st, Merge(default_state, st), entry_point, choices)

\* C13: two invocations of run_travel_planner that run concurrently on
\* separate state records do not influence each other: under every
\* interleaving of their steps each returns the state it would return
\* alone, given what its own environment did, and the module-level
\* travel_service is left as it was constructed.
C13_InvocationsIsolated ==
    /\ travel_service = TravelPlannerService
    /\ \A i \in Invocations :
           runs[i].pc = "returned" =>
               runs[i].result = Alone(runs[i].state, runs[i].choices)

\* two invocations on different inputs had a step return while the other
\* was suspended inside one, and both returned: the first its generated
\* itinerary, the
\* second, whose generation failed, its own record with the cause logged
C13_Witness ==
    /\ overlapped
    /\ runs[1].pc = "returned" /\ runs[2].pc = "returned"
    /\ runs[1].state = initial_state /\ runs[2].state = UsedState
    /\ Len(runs[1].choices) = 3 /\ Len(runs[2].choices) = 3
    /\ "response" \in DOMAIN runs[1].choices[3]
    /\ "response" \in DOMAIN runs[2].choices[3]
    /\ runs[1].choices[3].response.kind = "text"
    /\ runs[2].choices[3].response.kind = "raise"
    /\ runs[1].result.city = initial_state.city
    /\ runs[2].result.city = UsedState.city
    /\ Len(runs[1].result.messages) = 2
    /\ Len(runs[2].result.messages) = 1
    /\ Len(runs[2].result.error_log) = 1

====
